---- MODULE Spec2Model ----
(***************************************************************************)
(* Model of src/main.py: S3Syncer, the bucket-to-bucket synchronisation    *)
(* engine.  One process run is: enumerate the source (get_all_objects),    *)
(* submit one copy_object task per descriptor to a ThreadPoolExecutor of   *)
(* max_workers threads, record the outcomes in the as_completed loop of    *)
(* sync(), wait for the pool (the executor's context exit) and print the   *)
(* summary.  SIGINT/SIGTERM run signal_handler in the main thread; with    *)
(* the handler installed Python raises no KeyboardInterrupt, so the except *)
(* clauses for it (sync, main) are never entered.  The program may be      *)
(* started again on the same buckets (Restart).                            *)
(***************************************************************************)
EXTENDS Integers, Sequences, FiniteSets, TLC

\* ---------------------------------------------------------------- bounds
NumKeys == 2        \* largest source inventory explored
MaxWorkers == 2     \* largest MAX_WORKERS explored
PageSize == 1       \* descriptors per list_objects_v2 page

VARIABLES
    nkeys,        \* number of objects in the source bucket (keys 1..nkeys)
    target,       \* the destination bucket: key -> object or absent
    max_workers,  \* self.max_workers
    interrupted,  \* self.interrupted
    stats,        \* self.stats
    pc,           \* position of the main thread
    objects,      \* the descriptors listed so far (list(objects_generator))
    futures,      \* one future per submitted descriptor, with its task's locals
                  \* and the history of its remote calls (head, fail, late, n*)
    queue,        \* the executor's FIFO work queue (indices into objects)
    exitcode,     \* the process exit status, -1 while the process lives
    report,       \* what _print_summary printed
    hard,         \* a signal arrived while interrupted was already set
    prevClean,    \* the previous invocation ended uninterrupted with errors = 0
    ending        \* how the process ended, "-" while it lives

vars == <<nkeys, target, max_workers, interrupted, stats, pc, objects, futures,
          queue, exitcode, report, hard, prevClean, ending>>

Keys == 1..NumKeys

\* Chunk size of the body read
CHUNK_SIZE == 8 * 1024 * 1024

\* ------------------------------------------------------ the source bucket
\* The source is never written by the program; its objects are fixed per key.
KeyExt == <<"json", "png", "", "txt">>
SrcTypes == <<"binary/octet-stream", "application/octet-stream", "None", "text/plain">>

Ext(k) == KeyExt[((k - 1) % Len(KeyExt)) + 1]

\* obj['Size'] of the listing, which is also the length of the body read
SourceSize(k) == 6 * 1024 * 1024 * k

\* response.get('ContentType') of get_object; "None" when the key is absent
SourceContentType(k) == SrcTypes[((k - 1) % Len(SrcTypes)) + 1]

\* mimetypes.guess_type(key)[0]
guess_type(k) ==
    CASE Ext(k) = "json" -> "application/json"
      [] Ext(k) = "png"  -> "image/png"
      [] Ext(k) = "txt"  -> "text/plain"
      [] OTHER           -> "None"

\* Content-type resolution of copy_object: the source's own type unless it is
\* empty or 'binary/octet-stream', else the guess from the key, else
\* 'application/octet-stream'.
content_type(k, source_content_type) ==
    IF source_content_type \notin {"None", ""}
          /\ source_content_type /= "binary/octet-stream"
    THEN source_content_type
    ELSE IF guess_type(k) = "None" THEN "application/octet-stream"
         ELSE guess_type(k)

\* ------------------------------------------------- the destination bucket
Absent == [exists |-> FALSE, ContentLength |-> 0, ContentType |-> "None"]
Obj(size, ctype) == [exists |-> TRUE, ContentLength |-> size, ContentType |-> ctype]

\* What the destination may hold for key k before the first run: nothing, a
\* faithful copy, a copy of the right size with a stale type, or another size.
TargetChoices(k) ==
    { Absent,
      Obj(SourceSize(k), content_type(k, SourceContentType(k))),
      Obj(SourceSize(k), "binary/octet-stream"),
      Obj(SourceSize(k) + 1, "binary/octet-stream") }

\* ------------------------------------------------------------ the futures
NoFuture ==
    [state |-> "none", step |-> "-", status |-> <<>>, consumed |-> FALSE,
     target_size |-> <<>>, head_type |-> "None", file_content |-> 0,
     source_content_type |-> "None", late |-> FALSE, head |-> "-", fail |-> "-",
     nprobe |-> 0, nget |-> 0, nput |-> 0]

ZeroStats == [total |-> 0, copied |-> 0, skipped |-> 0, errors |-> 0]
NoReport == [kind |-> "none", remaining |-> 0]

\* How a remote call fails: botocore's ClientError, or any other Exception.
Failures == {"ClientError", "Exception"}

Running == {i \in Keys : futures[i].state = "running"}
Submitted == {i \in Keys : futures[i].state /= "none"}
\* A shutdown that also waits for work items that were cancelled.
Settled_all_finished == \A i \in Keys : futures[i].state \in {"none", "finished"}

\* No work item is queued or running: what shutdown(wait=True) waits for.
Settled == \A i \in Keys : futures[i].state \in {"none", "cancelled", "finished"}

\* status.startswith('error')
startswith_error(status) == Len(status) > 0 /\ status[1] = "error"

\* S3Syncer.__init__: the flag is down, the counters are zero.
Init ==
    /\ nkeys \in 0..NumKeys
    /\ target \in [Keys -> UNION {TargetChoices(k) : k \in Keys}]
    /\ \A k \in Keys : target[k] \in (IF k <= nkeys THEN TargetChoices(k) ELSE {Absent})
    /\ max_workers \in 1..MaxWorkers
    /\ interrupted = FALSE
    /\ stats = ZeroStats
    /\ pc = "init"
    /\ objects = <<>>
    /\ futures = [i \in Keys |-> NoFuture]
    /\ queue = <<>>
    /\ exitcode = -1
    /\ report = NoReport
    /\ hard = FALSE
    /\ prevClean = FALSE
    /\ ending = "-"

\* The status the process ends with: sys.exit(1) for a configuration error and
\* for any other exception in main(), sys.exit(130) in signal_handler, and 0
\* when main() returns.
exit_status(how) ==
    CASE how = "config" -> 1
      [] how = "fatal"  -> 1
      [] how = "forced" -> 130
      [] OTHER          -> 0

\* S3Syncer.__init__ with every required variable set: the clients are made.
Construct ==
    /\ pc = "init"
    /\ pc' = "list"
    /\ UNCHANGED <<nkeys, target, max_workers, interrupted, stats, objects,
                   futures, queue, exitcode, report, hard, prevClean, ending>>

\* S3Syncer.__init__ with a required variable missing: ValueError, which
\* main() reports before it exits.
ConfigError ==
    /\ pc = "init"
    /\ pc' = "exited"
    /\ ending' = "config"
    /\ exitcode' = exit_status("config")
    /\ UNCHANGED <<nkeys, target, max_workers, interrupted, stats, objects,
                   futures, queue, report, hard, prevClean>>

\* ------------------------------------------------- main thread: sync()
Min(a, b) == IF a < b THEN a ELSE b

\* get_all_objects: one more page of the paginator is drained into the list.
ListPage ==
    /\ pc = "list"
    /\ Len(objects) < nkeys
    /\ objects' = objects \o
          [j \in 1..Min(PageSize, nkeys - Len(objects)) |->
              [Key |-> Len(objects) + j, Size |-> SourceSize(Len(objects) + j)]]
    /\ UNCHANGED <<nkeys, target, max_workers, interrupted, stats, pc, futures,
                   queue, exitcode, report, hard, prevClean, ending>>

\* A page request fails and the error is swallowed: the run goes on with the
\* pages listed so far.
ListFail_partial ==
    /\ pc = "list"
    /\ Len(objects) < nkeys \/ nkeys = 0
    /\ IF Len(objects) = 0
       THEN /\ pc' = "returned"
            /\ ending' = "empty"
            /\ exitcode' = exit_status("empty")
            /\ stats' = stats
       ELSE /\ pc' = "submit"
            /\ ending' = ending
            /\ exitcode' = exitcode
            /\ stats' = [stats EXCEPT !.total = Len(objects)]
    /\ UNCHANGED <<nkeys, target, max_workers, interrupted, objects, futures,
                   queue, report, hard, prevClean>>

\* A page request fails: get_all_objects re-raises, sync() does not catch it,
\* main() prints the error and exits 1.
ListFail ==
    /\ pc = "list"
    /\ Len(objects) < nkeys \/ nkeys = 0
    /\ pc' = "exited"
    /\ ending' = "fatal"
    /\ exitcode' = exit_status("fatal")
    /\ UNCHANGED <<nkeys, target, max_workers, interrupted, stats, objects,
                   futures, queue, report, hard, prevClean>>

\* The generator is exhausted: an empty list returns at once, otherwise the
\* total is set.
ListDone ==
    /\ pc = "list"
    /\ Len(objects) = nkeys
    /\ IF Len(objects) = 0
       THEN /\ pc' = "returned"
            /\ ending' = "empty"
            /\ exitcode' = exit_status("empty")
            /\ stats' = stats
       ELSE /\ pc' = "submit"
            /\ ending' = ending
            /\ exitcode' = exitcode
            /\ stats' = [stats EXCEPT !.total = Len(objects)]
    /\ UNCHANGED <<nkeys, target, max_workers, interrupted, objects, futures,
                   queue, report, hard, prevClean>>

\* The executor is created and every descriptor is submitted to it.
Submit ==
    /\ pc = "submit"
    /\ futures' = [i \in Keys |->
          IF i <= Len(objects) THEN [NoFuture EXCEPT !.state = "pending"]
          ELSE NoFuture]
    /\ queue' = [j \in 1..Len(objects) |-> j]
    /\ pc' = "loop"
    /\ UNCHANGED <<nkeys, target, max_workers, interrupted, stats, objects,
                   exitcode, report, hard, prevClean, ending>>

\* record with the error branch testing for the bare word: no error status,
\* which carries the key and the code, is counted.
record_errors_lost(st, status) ==
    IF status = <<"copied">> THEN [st EXCEPT !.copied = @ + 1]
    ELSE IF status = <<"skipped">> THEN [st EXCEPT !.skipped = @ + 1]
    ELSE IF status = <<"error">> THEN [st EXCEPT !.errors = @ + 1]
    ELSE st

\* record with a copy counted a second time.
record_copied_twice(st, status) ==
    IF status = <<"copied">> THEN [st EXCEPT !.copied = @ + 2]
    ELSE IF status = <<"skipped">> THEN [st EXCEPT !.skipped = @ + 1]
    ELSE IF startswith_error(status) THEN [st EXCEPT !.errors = @ + 1]
    ELSE st

\* The counter a status is recorded in.
record(st, status) ==
    IF status = <<"copied">> THEN [st EXCEPT !.copied = @ + 1]
    ELSE IF status = <<"skipped">> THEN [st EXCEPT !.skipped = @ + 1]
    ELSE IF status = <<"interrupted">> THEN st
    ELSE IF startswith_error(status) THEN [st EXCEPT !.errors = @ + 1]
    ELSE st

\* The loop submitting a failed descriptor again instead of recording it.
AsCompleted_retry(i) ==
    /\ pc = "loop"
    /\ futures[i].state = "finished"
    /\ ~futures[i].consumed
    /\ IF interrupted
       THEN /\ futures' = [j \in Keys |->
                 IF futures[j].state = "pending"
                 THEN [futures[j] EXCEPT !.state = "cancelled"]
                 ELSE futures[j]]
            /\ queue' = <<>>
            /\ pc' = "shutdown"
            /\ stats' = stats
       ELSE IF startswith_error(futures[i].status)
       THEN /\ futures' = [futures EXCEPT ![i].state = "pending", ![i].status = <<>>]
            /\ queue' = Append(queue, i)
            /\ UNCHANGED <<stats, pc>>
       ELSE /\ futures' = [futures EXCEPT ![i].consumed = TRUE]
            /\ stats' = record(stats, futures[i].status)
            /\ UNCHANGED <<queue, pc>>
    /\ UNCHANGED <<nkeys, target, max_workers, interrupted, objects, exitcode,
                   report, hard, prevClean, ending>>

\* One iteration of `for future in as_completed(futures)`: with the flag up
\* every future is cancelled (only pending ones can be) and the loop is left,
\* the completed future's result unread; otherwise the result is recorded.
AsCompleted(i) ==
    /\ pc = "loop"
    /\ futures[i].state = "finished"
    /\ ~futures[i].consumed
    /\ IF interrupted
       THEN /\ futures' = [j \in Keys |->
                 IF futures[j].state = "pending"
                 THEN [futures[j] EXCEPT !.state = "cancelled"]
                 ELSE futures[j]]
            /\ queue' = <<>>
            /\ pc' = "shutdown"
            /\ stats' = stats
       ELSE /\ futures' = [futures EXCEPT ![i].consumed = TRUE]
            /\ stats' = record(stats, futures[i].status)
            /\ UNCHANGED <<queue, pc>>
    /\ UNCHANGED <<nkeys, target, max_workers, interrupted, objects, exitcode,
                   report, hard, prevClean, ending>>

\* as_completed is exhausted: the loop and the tqdm block are left.
LoopEnd ==
    /\ pc = "loop"
    /\ \A i \in Submitted : futures[i].consumed
    /\ pc' = "shutdown"
    /\ UNCHANGED <<nkeys, target, max_workers, interrupted, stats, objects,
                   futures, queue, exitcode, report, hard, prevClean, ending>>

\* The executor left with shutdown(wait=False): busy workers are not awaited.
ExecutorExit_nowait ==
    /\ pc = "shutdown"
    /\ pc' = "summary"
    /\ UNCHANGED <<nkeys, target, max_workers, interrupted, stats, objects,
                   futures, queue, exitcode, report, hard, prevClean, ending>>

\* ThreadPoolExecutor.__exit__: shutdown(wait=True) returns once the workers
\* have finished.
ExecutorExit ==
    /\ pc = "shutdown"
    /\ Settled
    /\ pc' = "summary"
    /\ UNCHANGED <<nkeys, target, max_workers, interrupted, stats, objects,
                   futures, queue, exitcode, report, hard, prevClean, ending>>

processed(st) == st.copied + st.skipped + st.errors

\* _print_summary, then sync() and main() return.
Summary ==
    /\ pc = "summary"
    /\ report' =
          [kind |-> IF interrupted THEN "interrupted"
                    ELSE IF stats.errors > 0 THEN "errors" ELSE "success",
           remaining |-> IF interrupted THEN stats.total - processed(stats) ELSE 0]
    /\ pc' = "done"
    /\ ending' = IF interrupted THEN "graceful" ELSE "normal"
    /\ exitcode' = exit_status(ending')
    /\ UNCHANGED <<nkeys, target, max_workers, interrupted, stats, objects,
                   futures, queue, hard, prevClean>>

\* A handler with one tier: every signal raises the flag and exits at once.
Signal_single_tier ==
    /\ pc \in {"list", "submit", "loop", "shutdown", "summary"}
    /\ interrupted' = TRUE
    /\ hard' = TRUE
    /\ IF pc \in {"loop", "shutdown"} /\ ~Settled
       THEN pc' = "exit_wait" /\ exitcode' = exitcode /\ ending' = ending
       ELSE /\ pc' = "exited"
            /\ ending' = "forced"
            /\ exitcode' = exit_status("forced")
    /\ UNCHANGED <<nkeys, target, max_workers, stats, objects, futures, queue,
                   report, prevClean>>

\* signal_handler: the first signal raises the flag; a later one calls
\* sys.exit(130), i.e. raises SystemExit in the main thread.  Inside the
\* executor's with-block the exception first runs shutdown(wait=True); after
\* it, interpreter exit joins the pool's threads: the process ends only when
\* no worker is busy and the queue is drained.
Signal ==
    /\ pc \in {"list", "submit", "loop", "shutdown", "summary"}
    /\ IF ~interrupted
       THEN /\ interrupted' = TRUE
            /\ UNCHANGED <<pc, exitcode, hard, ending>>
       ELSE /\ hard' = TRUE
            /\ interrupted' = interrupted
            /\ IF pc \in {"loop", "shutdown"} /\ ~Settled
               THEN pc' = "exit_wait" /\ exitcode' = exitcode /\ ending' = ending
               ELSE /\ pc' = "exited"
                    /\ ending' = "forced"
                    /\ exitcode' = exit_status("forced")
    /\ UNCHANGED <<nkeys, target, max_workers, stats, objects, futures, queue,
                   report, prevClean>>

\* The workers have finished after SystemExit: the process ends with 130.
ExitWaitDone ==
    /\ pc = "exit_wait"
    /\ Settled
    /\ pc' = "exited"
    /\ ending' = "forced"
    /\ exitcode' = exit_status("forced")
    /\ UNCHANGED <<nkeys, target, max_workers, interrupted, stats, objects,
                   futures, queue, report, hard, prevClean>>

\* ------------------------------------------------ worker threads: copy_object
\* The pool taking one thread more than configured.
idle_worker_one_more == Cardinality(Running) <= max_workers

\* A pool thread is free to take the next work item.
idle_worker == Cardinality(Running) < max_workers

\* copy_object without its interruption check.
copy_object_entry_unchecked(f, flag) ==
    [f EXCEPT !.state = "running", !.step = "probe"]

\* Top of copy_object: with the flag up it returns 'interrupted' at once.
copy_object_entry(f, flag) ==
    IF flag
    THEN [f EXCEPT !.state = "finished", !.status = <<"interrupted">>, !.late = TRUE]
    ELSE [f EXCEPT !.state = "running", !.step = "probe"]

\* A pool thread takes the oldest work item and calls copy_object on it.
Start(i) ==
    /\ pc \in {"loop", "shutdown", "exit_wait"}
    /\ queue /= <<>>
    /\ i = Head(queue)
    /\ futures[i].state = "pending"
    /\ idle_worker
    /\ queue' = Tail(queue)
    /\ futures' = [futures EXCEPT ![i] = copy_object_entry(@, interrupted)]
    /\ UNCHANGED <<nkeys, target, max_workers, interrupted, stats, pc, objects,
                   exitcode, report, hard, prevClean, ending>>

ClientError(code) == [type |-> "ClientError", code |-> code]
OtherError == [type |-> "Exception", code |-> "connection"]

\* What head_object may raise besides its normal answers: a ClientError other
\* than the 404, or an exception that is no ClientError.
RemoteFailures == {ClientError("403"), OtherError}

\* What get_object (a ClientError) or the read of its body (another
\* exception) may raise.
ReadFailures == {ClientError("NoSuchKey"), OtherError}

\* upload_fileobj reports a failed transfer as boto3's S3UploadFailedError,
\* which is no ClientError.
UploadFailures == {[type |-> "Exception", code |-> "upload failed"]}

\* target_client.head_object on key k: the object's metadata, a 404 when the
\* key is absent, or a failure.
head_object(k) ==
    (IF target[k].exists
     THEN {[ok |-> TRUE, ContentLength |-> target[k].ContentLength,
            ContentType |-> target[k].ContentType, error |-> OtherError]}
     ELSE {[ok |-> FALSE, ContentLength |-> 0, ContentType |-> "None",
            error |-> ClientError("404")]})
    \cup {[ok |-> FALSE, ContentLength |-> 0, ContentType |-> "None", error |-> e] :
             e \in RemoteFailures}

\* check_target_object re-raising every ClientError, the 404 included.
check_target_object_raises_404(response) ==
    IF response.ok
    THEN [raised |-> FALSE, value |-> <<response.ContentLength>>]
    ELSE [raised |-> TRUE, value |-> <<>>]

\* check_target_object: the size, None (<<>>) on a 404, anything else raised.
check_target_object(response) ==
    IF response.ok
    THEN [raised |-> FALSE, value |-> <<response.ContentLength>>]
    ELSE IF response.error.type = "ClientError" /\ response.error.code = "404"
    THEN [raised |-> FALSE, value |-> <<>>]
    ELSE [raised |-> TRUE, value |-> <<>>]

\* The skip test without the size comparison: any existing object matches.
matches_any_existing(target_size, source_size) ==
    target_size /= <<>>

\* The skip test with `or` between its halves: an absent object matches too.
matches_absent_too(target_size, source_size) ==
    target_size = <<>> \/ target_size[1] = source_size

\* `target_size is not None and target_size == source_size`
matches(target_size, source_size) ==
    target_size /= <<>> /\ target_size[1] = source_size

\* The except clauses building the message without the 'error' prefix.
error_status_unprefixed(key, e) ==
    IF e.type = "ClientError" THEN <<key, e.code>>
    ELSE <<e.code>>

\* The except clauses of copy_object: the status of a failed transfer.
error_status(key, e) ==
    IF e.type = "ClientError" THEN <<"error", key, e.code>>
    ELSE <<"error", e.code>>

\* The probe and the skip decision.
Probe(i) ==
    /\ futures[i].state = "running"
    /\ futures[i].step = "probe"
    /\ \E response \in head_object(objects[i].Key) :
          LET res == check_target_object(response)
              f == [futures[i] EXCEPT
                      !.nprobe = @ + 1,
                      !.head_type = response.ContentType,
                      !.head = IF response.ok THEN "found"
                               ELSE IF response.error = ClientError("404") THEN "404"
                               ELSE "failed",
                      !.fail = IF response.ok \/ response.error = ClientError("404")
                               THEN "-" ELSE "probe"]
          IN futures' = [futures EXCEPT ![i] =
                IF res.raised
                THEN [f EXCEPT !.state = "finished", !.step = "-",
                               !.status = error_status(objects[i].Key, response.error)]
                ELSE IF matches(res.value, objects[i].Size)
                THEN [f EXCEPT !.state = "finished", !.step = "-",
                               !.target_size = res.value,
                               !.status = <<"skipped">>]
                ELSE [f EXCEPT !.step = "get", !.target_size = res.value]]
    /\ UNCHANGED <<nkeys, target, max_workers, interrupted, stats, pc, objects,
                   queue, exitcode, report, hard, prevClean, ending>>

\* The loop over response['Body'].iter_chunks(chunk_size=CHUNK_SIZE): every
\* chunk is appended to file_content; the result is the buffer's length.
RECURSIVE iter_chunks(_, _)
iter_chunks(remaining, file_content) ==
    IF remaining = 0 THEN file_content
    ELSE iter_chunks(remaining - Min(CHUNK_SIZE, remaining),
                     file_content + Min(CHUNK_SIZE, remaining))

\* source_client.get_object and the read of the body into file_content.
Get(i) ==
    /\ futures[i].state = "running"
    /\ futures[i].step = "get"
    /\ \/ futures' = [futures EXCEPT ![i].nget = @ + 1,
                                     ![i].step = "put",
                                     ![i].file_content =
                                          iter_chunks(SourceSize(objects[i].Key), 0),
                                     ![i].source_content_type =
                                          SourceContentType(objects[i].Key)]
       \/ \E e \in ReadFailures :
             futures' = [futures EXCEPT ![i].nget = @ + 1,
                                        ![i].fail = "get",
                                        ![i].state = "finished",
                                        ![i].step = "-",
                                        ![i].status = error_status(objects[i].Key, e)]
    /\ UNCHANGED <<nkeys, target, max_workers, interrupted, stats, pc, objects,
                   queue, exitcode, report, hard, prevClean, ending>>

\* An upload that sends the buffer without the seek(0): an empty object.
upload_without_rewind(t, key, length, ctype) == [t EXCEPT ![key] = Obj(0, ctype)]

\* An upload without ExtraArgs: the store's default type is recorded.
upload_without_type(t, key, length, ctype) ==
    [t EXCEPT ![key] = Obj(length, "binary/octet-stream")]

\* target_client.upload_fileobj with the resolved content type.
upload_fileobj(t, key, length, ctype) == [t EXCEPT ![key] = Obj(length, ctype)]

Put(i) ==
    /\ futures[i].state = "running"
    /\ futures[i].step = "put"
    /\ \/ /\ target' = upload_fileobj(target, objects[i].Key, futures[i].file_content,
                          content_type(objects[i].Key, futures[i].source_content_type))
          /\ futures' = [futures EXCEPT ![i].nput = @ + 1,
                                        ![i].state = "finished",
                                        ![i].step = "-",
                                        ![i].status = <<"copied">>]
       \/ /\ \E e \in UploadFailures :
                futures' = [futures EXCEPT ![i].nput = @ + 1,
                                           ![i].fail = "put",
                                           ![i].state = "finished",
                                           ![i].step = "-",
                                           ![i].status = error_status(objects[i].Key, e)]
          /\ target' = target
    /\ UNCHANGED <<nkeys, max_workers, interrupted, stats, pc, objects,
                   queue, exitcode, report, hard, prevClean, ending>>

\* ------------------------------------------------------- the next invocation
\* The process has ended; the program is started again on the same buckets.
Restart ==
    /\ pc \in {"done", "returned", "exited"}
    /\ prevClean' = \/ pc = "returned" /\ ~interrupted
                    \/ pc = "done" /\ report.kind = "success"
    /\ interrupted' = FALSE
    /\ stats' = ZeroStats
    /\ pc' = "init"
    /\ objects' = <<>>
    /\ futures' = [i \in Keys |-> NoFuture]
    /\ queue' = <<>>
    /\ exitcode' = -1
    /\ report' = NoReport
    /\ hard' = FALSE
    /\ ending' = "-"
    /\ UNCHANGED <<nkeys, target, max_workers>>

Next ==
    \/ Construct
    \/ ConfigError
    \/ ListPage
    \/ ListFail
    \/ ListDone
    \/ Submit
    \/ \E i \in Keys : AsCompleted(i)
    \/ LoopEnd
    \/ ExecutorExit
    \/ Summary
    \/ Signal
    \/ ExitWaitDone
    \/ \E i \in Keys : Start(i)
    \/ \E i \in Keys : Probe(i)
    \/ \E i \in Keys : Get(i)
    \/ \E i \in Keys : Put(i)
    \/ Restart

Spec == Init /\ [][Next]_vars

\* The same program with its scheduling: the main thread goes on whenever it
\* can, every remote call returns or fails, and the pool's threads are run.
\* Signals, failures of the listing and new invocations are under no
\* obligation to happen.
FairSpec ==
    /\ Spec
    /\ WF_vars(Construct \/ ListPage \/ ListDone \/ Submit
                  \/ (\E i \in Keys : AsCompleted(i))
                  \/ LoopEnd \/ ExecutorExit \/ Summary \/ ExitWaitDone)
    /\ WF_vars(\E i \in Keys : Start(i) \/ Probe(i) \/ Get(i) \/ Put(i))

\* ================================================================ claims
Dispatched == 1..Len(objects)
WithStatus(status) == {i \in Keys : futures[i].status = status}
Errored == {i \in Keys : startswith_error(futures[i].status)}
CleanSummary == pc = "done" /\ ~interrupted

\* C1: when sync() reaches its summary with the interrupted flag down,
\* total = copied + skipped + errors, and every enumerated descriptor's
\* outcome has been recorded once, in the one counter of its status.
C1_TotalIsSumAtCleanSummary ==
    CleanSummary =>
        /\ stats.total = stats.copied + stats.skipped + stats.errors
        /\ stats.total = nkeys
        /\ \A i \in 1..nkeys : futures[i].state = "finished" /\ futures[i].consumed
        /\ stats.copied = Cardinality(WithStatus(<<"copied">>))
        /\ stats.skipped = Cardinality(WithStatus(<<"skipped">>))
        /\ stats.errors = Cardinality(Errored)

\* A two-worker run that ended uninterrupted with one copy and one error.
C1_Witness ==
    /\ CleanSummary
    /\ max_workers = 2
    /\ stats.total = 2
    /\ stats.copied = 1
    /\ stats.errors = 1

\* C2: in every state of a run, copied + skipped + errors <= total.
C2_ProcessedAtMostTotal ==
    stats.copied + stats.skipped + stats.errors <= stats.total

\* After a soft interrupt, one outcome recorded and a worker still busy.
C2_Witness ==
    /\ interrupted
    /\ pc = "loop"
    /\ Running /= {}
    /\ processed(stats) = 1
    /\ stats.total = 2

\* The type copy_object would write for key k.
Resolved(k) == content_type(k, SourceContentType(k))

AbsentAndUnfailed(i) ==
    futures[i].head = "404" /\ futures[i].fail = "-"

\* C4: a transfer whose probe answers not-found goes on to read and write;
\* when neither fails it returns 'copied' with the object written to the
\* destination, and an uninterrupted run has counted it in copied.
C4_AbsentIsCopied ==
    /\ \A i \in Dispatched :
          AbsentAndUnfailed(i) =>
             /\ futures[i].status \notin {<<"skipped">>, <<"interrupted">>}
             /\ futures[i].state \in {"running", "finished"}
             /\ futures[i].state = "running" => futures[i].step \in {"get", "put"}
             /\ futures[i].state = "finished" =>
                   /\ futures[i].status = <<"copied">>
                   /\ futures[i].nput = 1
                   /\ target[objects[i].Key] =
                         Obj(objects[i].Size, Resolved(objects[i].Key))
    /\ CleanSummary =>
          /\ \A i \in Dispatched : AbsentAndUnfailed(i) => futures[i].consumed
          /\ stats.copied >= Cardinality({i \in Dispatched : AbsentAndUnfailed(i)})

\* An uninterrupted run that copied an object the destination did not have.
C4_Witness ==
    /\ CleanSummary
    /\ \E i \in Dispatched :
          /\ AbsentAndUnfailed(i)
          /\ futures[i].status = <<"copied">>
          /\ stats.copied >= 1

\* C5: after a run that ended uninterrupted with errors = 0, the next run
\* issues no read and no write and counts no copy; when it in turn ends
\* uninterrupted and without a failed probe, skipped = total.
C5_SecondRunSkipsAll ==
    prevClean =>
        /\ \A i \in Keys : futures[i].nput = 0 /\ futures[i].nget = 0
        /\ stats.copied = 0
        /\ \A i \in Dispatched : futures[i].head /= "404"
        /\ \A i \in Dispatched :
              (futures[i].state = "finished" /\ futures[i].head = "found") =>
                  futures[i].status = <<"skipped">>
        /\ (CleanSummary /\ stats.errors = 0) =>
              /\ stats.skipped = stats.total
              /\ stats.total = nkeys

\* A second run over two objects that ended with both skipped.
C5_Witness ==
    /\ prevClean
    /\ CleanSummary
    /\ stats.total = 2
    /\ stats.skipped = 2
    /\ stats.copied = 0

\* C6: the number of copy_object invocations between their start and their
\* return never exceeds max_workers.
C6_InFlightAtMostMaxWorkers ==
    Cardinality(Running) <= max_workers

\* Every pool thread is busy while a submitted descriptor still waits.
C6_Witness ==
    /\ Cardinality(Running) = max_workers
    /\ queue /= <<>>
    /\ futures[Head(queue)].state = "pending"

\* C7: after a not-found probe the transfer goes on to the read (nothing was
\* raised); after any other probe failure the transfer has ended with an
\* error status and has issued neither a read nor a write.
C7_NotFoundProceedsOtherFailureIsError ==
    \A i \in Dispatched :
        /\ futures[i].head = "404" =>
              /\ futures[i].target_size = <<>>
              /\ \/ futures[i].state = "running" /\ futures[i].step = "get"
                 \/ futures[i].nget = 1
        /\ futures[i].head = "failed" =>
              /\ futures[i].state = "finished"
              /\ startswith_error(futures[i].status)
              /\ futures[i].nget = 0
              /\ futures[i].nput = 0

\* One transfer copied after a not-found probe, another ended by a probe
\* failure.
C7_Witness ==
    \E i, j \in Dispatched :
        /\ futures[i].head = "404"
        /\ futures[i].status = <<"copied">>
        /\ futures[j].head = "failed"
        /\ startswith_error(futures[j].status)

Failed == {i \in Keys : futures[i].fail /= "-"}
Consumed == {i \in Keys : futures[i].consumed}

\* C8: a failed probe, read or write ends that transfer alone with an error
\* status and no further call; each consumed error adds exactly one to errors
\* and nothing to the other counters; no such failure ends the process; and in
\* an uninterrupted run every other descriptor is attempted and recorded with
\* its own outcome.
C8_FailureIsOneErrorForThatObject ==
    /\ \A i \in Keys :
          futures[i].fail /= "-" =>
             /\ futures[i].state = "finished"
             /\ startswith_error(futures[i].status)
             /\ futures[i].fail = "probe" => futures[i].nget = 0
             /\ futures[i].fail \in {"probe", "get"} => futures[i].nput = 0
    /\ \A i \in Keys : startswith_error(futures[i].status) => futures[i].fail /= "-"
    /\ stats.errors = Cardinality(Failed \cap Consumed)
    /\ stats.copied + stats.skipped =
          Cardinality({i \in Consumed \ Failed : futures[i].status /= <<"interrupted">>})
    /\ (Failed /= {} /\ pc = "exited") => hard
    /\ CleanSummary =>
          /\ stats.errors = Cardinality(Failed)
          /\ \A i \in 1..nkeys :
                /\ futures[i].consumed
                /\ futures[i].nprobe = 1
                /\ i \notin Failed => futures[i].status \in {<<"copied">>, <<"skipped">>}

\* An uninterrupted run in which one transfer failed and the other was copied.
C8_Witness ==
    /\ CleanSummary
    /\ \E i, j \in Dispatched :
          /\ futures[i].fail /= "-"
          /\ futures[j].status = <<"copied">>
    /\ stats.errors = 1
    /\ stats.copied = 1

\* C9: a transfer that starts with the interrupted flag up returns
\* 'interrupted' having issued no probe, read or write; so with the flag up
\* only a transfer that was admitted while it was down writes the destination.
C9_LateTransferDoesNoIO ==
    /\ [](\A i \in Keys :
             futures[i].late =>
                /\ futures[i].status = <<"interrupted">>
                /\ futures[i].nprobe = 0
                /\ futures[i].nget = 0
                /\ futures[i].nput = 0)
    /\ [][\A i \in Keys :
             (interrupted /\ futures[i].state = "pending"
                 /\ futures'[i].state \in {"running", "finished"}) =>
                /\ futures'[i].state = "finished"
                /\ futures'[i].status = <<"interrupted">>
                /\ futures'[i].late
                /\ target' = target]_vars
    /\ [][\A i \in Keys :
             (interrupted /\ i \in Dispatched
                 /\ target'[objects[i].Key] /= target[objects[i].Key]) =>
                /\ futures[i].state = "running"
                /\ ~futures[i].late]_vars

\* One transfer wrote the destination, a later one started after the signal
\* and returned 'interrupted'.
C9_Witness ==
    /\ interrupted
    /\ \E i, j \in Dispatched :
          /\ futures[i].nput = 1
          /\ futures[i].status = <<"copied">>
          /\ futures[j].late
          /\ futures[j].status = <<"interrupted">>

\* C10: once a second signal has arrived the process has ended with status
\* 130, without waiting for transfers in flight or queued.
C10_HardInterruptExitsAtOnce ==
    hard => (pc = "exited" /\ exitcode = 130)

\* The descriptors whose transfer ran to completion: written, found matching,
\* or failed.
Completed ==
    {i \in Keys : futures[i].status \in {<<"copied">>, <<"skipped">>}
                     \/ startswith_error(futures[i].status)}

\* C11: when the run ends interrupted, the reported deficit is the number of
\* descriptors whose transfer never ran to completion, and every transfer
\* that did is in the counters.
C11_DeficitIsUnfinishedOnly ==
    report.kind = "interrupted" =>
        /\ report.remaining = Cardinality((1..nkeys) \ Completed)
        /\ \A i \in Completed : futures[i].consumed

\* The four terminal situations the exit status is to tell apart.
Situations == {"config", "fatal", "graceful", "forced"}

\* C12: the exit status of a process ended by a configuration error, a fatal
\* error, a graceful interruption or a forced termination is the status of
\* none of the other three, and the status of a gracefully interrupted run is
\* not that of a normally completed one.
C12_ExitStatusTellsEndingsApart ==
    /\ ending \in Situations =>
          \A other \in Situations \ {ending} : exitcode /= exit_status(other)
    /\ ending = "graceful" => exitcode /= exit_status("normal")
    /\ ending = "normal" => exitcode /= exit_status("graceful")

\* C13: a failed listing ends the process abnormally with nothing done: no
\* future exists (so no probe, read or write was issued), no counter has
\* changed and no summary was printed; and transfers are only ever submitted
\* for the complete inventory.
C13_ListingFailureAbortsBeforeAnyTransfer ==
    /\ ending = "fatal" =>
          /\ pc = "exited"
          /\ exitcode = 1
          /\ stats = ZeroStats
          /\ futures = [i \in Keys |-> NoFuture]
          /\ queue = <<>>
          /\ report = NoReport
    /\ (Submitted /= {} \/ pc \in {"submit", "loop", "shutdown", "summary", "done"}) =>
          /\ Len(objects) = nkeys
          /\ stats.total = nkeys

\* The listing failed on a later page, after descriptors had been listed.
C13_Witness ==
    /\ ending = "fatal"
    /\ Len(objects) >= 1
    /\ Len(objects) < nkeys

C15_BufferedAtMostOneChunk ==
    \A i \in Dispatched :
        objects[i].Size > CHUNK_SIZE => futures[i].file_content <= CHUNK_SIZE

OwnOutcome(f) ==
    f.status = <<"copied">> \/ f.status = <<"skipped">> \/ startswith_error(f.status)

\* C16: with the flag up a queued transfer is never admitted to remote I/O (it
\* is cancelled or returns 'interrupted' untouched); a transfer that is running
\* stays running until it finishes with its own outcome; and the summary is
\* reached only when no transfer is running or queued.
C16_GracefulDrain ==
    [][ /\ \A i \in Keys :
              (interrupted /\ futures[i].state = "pending" /\ pc' /= "init") =>
                  \/ futures'[i].state \in {"pending", "cancelled"}
                  \/ /\ futures'[i].state = "finished"
                     /\ futures'[i].status = <<"interrupted">>
                     /\ futures'[i].nprobe = 0
                     /\ futures'[i].nget = 0
                     /\ futures'[i].nput = 0
        /\ \A i \in Keys :
              (futures[i].state = "running" /\ pc' /= "init") =>
                  \/ futures'[i].state = "running"
                  \/ futures'[i].state = "finished" /\ OwnOutcome(futures'[i])
        /\ pc' \in {"summary", "done"} => (Settled' /\ Running' = {})
        /\ report' /= report /\ pc' /= "init" => (Settled /\ Running = {})
      ]_vars

\* The loop was left on an interrupt and the executor's exit is waiting for a
\* transfer that is still in the middle of its remote calls.
C16_Witness ==
    /\ pc = "shutdown"
    /\ interrupted
    /\ ~hard
    /\ \E i \in Running : futures[i].nprobe = 1
    /\ \E i \in Keys : futures[i].state = "finished" /\ ~futures[i].consumed

\* The placeholders a store records when the uploader named no real type.
GenericTypes == {"binary/octet-stream", "application/octet-stream"}

\* The precedence C17 states: the source's type unless absent or generic, else
\* the type of the key's extension, else the generic binary type.
CanonicalType(k) ==
    IF SourceContentType(k) \notin {"None", ""} \cup GenericTypes
    THEN SourceContentType(k)
    ELSE IF guess_type(k) /= "None" THEN guess_type(k)
         ELSE "application/octet-stream"

\* C17: every object written by a transfer carries the canonical type; a
\* generic source type never wins over the type of the key's extension.
C17_WrittenTypeIsCanonical ==
    \A i \in Dispatched :
        futures[i].status = <<"copied">> =>
            target[objects[i].Key].ContentType = CanonicalType(objects[i].Key)

\* C18: within one run every descriptor names its own key and is queued at most
\* once; its future makes at most one probe, one read and one write; a future
\* that has finished, in error or not, never runs again; and a destination key
\* changes only by the single write of its own descriptor.
C18_SingleAttemptPerObject ==
    [][ pc' /= "init" =>
          /\ \A i, j \in 1..Len(objects') :
                objects'[i].Key = objects'[j].Key => i = j
          /\ \A m, n \in 1..Len(queue') : queue'[m] = queue'[n] => m = n
          /\ \A i \in Keys :
                /\ futures'[i].nprobe <= 1
                /\ futures'[i].nget <= 1
                /\ futures'[i].nput <= 1
                /\ futures[i].state = "finished" =>
                      /\ futures'[i].state = "finished"
                      /\ futures'[i].status = futures[i].status
                      /\ futures'[i].nprobe = futures[i].nprobe
                      /\ futures'[i].nget = futures[i].nget
                      /\ futures'[i].nput = futures[i].nput
          /\ \A k \in Keys :
                target'[k] /= target[k] =>
                    \E i \in Dispatched :
                        /\ objects[i].Key = k
                        /\ futures[i].nput = 0
                        /\ futures'[i].nput = 1
      ]_vars

\* A run has ended with two errors, one after a failed write and one after a
\* failed read, each object having been attempted once.
C18_Witness ==
    /\ pc = "done"
    /\ stats.errors = 2
    /\ \E i, j \in Dispatched :
          /\ futures[i].fail = "put" /\ futures[i].nput = 1 /\ futures[i].consumed
          /\ futures[j].fail = "get" /\ futures[j].nget = 1 /\ futures[j].consumed

\* C19: within a run the flag, once up, stays up; the step that raises it
\* changes nothing else (the process lives on, no counter moves); and the
\* forced exit is taken only by a signal that finds the flag already up, so
\* status 130 is never reached without it.
C19_CancellationOnlyMovesForward ==
    [][ pc' /= "init" =>
          /\ interrupted => interrupted'
          /\ hard => hard'
          /\ (~interrupted /\ interrupted') =>
                UNCHANGED <<nkeys, target, max_workers, stats, pc, objects, futures,
                            queue, exitcode, report, hard, prevClean, ending>>
          /\ (~hard /\ hard') => (interrupted /\ interrupted')
          /\ (ending' = "forced" \/ exitcode' = 130) => (hard' /\ interrupted)
      ]_vars

\* Both tiers were passed: a signal raised the flag while transfers went on,
\* a second one forced the exit.
C19_Witness ==
    /\ interrupted
    /\ hard
    /\ ending = "forced"
    /\ exitcode = 130
    /\ Submitted /= {}

\* C20 as stated, in its finite-run form: a run of sync() that has ended
\* without a forced exit has printed its final summary (a run that ended
\* without it can no longer reach it).
C20_EveryEndedRunPrintedSummary ==
    (pc \in {"returned", "exited"} /\ ending \notin {"config", "forced"}) =>
        report /= NoReport

\* C20 (amended): under fair scheduling a run of sync() that is listing, with
\* or without a soft interrupt at any point, eventually prints its final
\* summary, unless the inventory is empty, the listing fails or a second
\* signal arrives.
C20_RunReachesSummary ==
    [](pc = "list" =>
          <>(pc = "done" \/ ending \in {"empty", "fatal"} \/ hard))

\* A run interrupted once has printed its summary although a queued transfer
\* was cancelled and never ran.
C20_Witness ==
    /\ pc = "done"
    /\ report.kind = "interrupted"
    /\ ~hard
    /\ \E i \in Dispatched : futures[i].state = "cancelled"

====
